---------------------------- MODULE Spec2Model ----------------------------
(***************************************************************************)
(* Model of src/src/App.jsx: the sheet loader hook (useSheetData), the     *)
(* key/alias/sanitising helpers, and the App's memoised search index,      *)
(* facet list and result list.                                             *)
(*                                                                         *)
(* JavaScript strings are sequences of one-character strings, so that      *)
(* trim, case mapping and the whitespace-to-underscore rewrite are         *)
(* computed character by character as the code computes them.              *)
(***************************************************************************)
EXTENDS Integers, Sequences, FiniteSets, TLC

(***************************************************************************)
(* String literals (of the source, and the cell/header texts used as       *)
(* inputs), spelled out as character sequences.                            *)
(***************************************************************************)
t_ERROR == <<"#", "E", "R", "R", "O", "R", "!">>
t_NA_hash == <<"#", "N", "/", "A">>
t_NA == <<"N", "/", "A">>
t_NULL == <<"N", "U", "L", "L">>
t_UNDEFINED == <<"U", "N", "D", "E", "F", "I", "N", "E", "D">>
k_brand_name == <<"b", "r", "a", "n", "d", "_", "n", "a", "m", "e">>
k_website_url == <<"w", "e", "b", "s", "i", "t", "e", "_", "u", "r", "l">>
k_maps_url == <<"m", "a", "p", "s", "_", "u", "r", "l">>
k_booking_widget_url == <<"b", "o", "o", "k", "i", "n", "g", "_", "w", "i", "d", "g", "e", "t", "_", "u", "r", "l">>
k_logo_url_full == <<"l", "o", "g", "o", "_", "u", "r", "l", "_", "f", "u", "l", "l">>
k_area_town_city == <<"a", "r", "e", "a", "_", "t", "o", "w", "n", "_", "c", "i", "t", "y">>
k_tags == <<"t", "a", "g", "s">>
k_region == <<"r", "e", "g", "i", "o", "n">>
a_brand_name == <<"b", "r", "a", "n", "d", " ", "n", "a", "m", "e">>
a_official_website == <<"o", "f", "f", "i", "c", "i", "a", "l", " ", "w", "e", "b", "s", "i", "t", "e">>
a_website_url == <<"w", "e", "b", "s", "i", "t", "e", " ", "u", "r", "l">>
a_maps_url == <<"m", "a", "p", "s", " ", "u", "r", "l">>
a_widget_url_canonical == <<"w", "i", "d", "g", "e", "t", " ", "u", "r", "l", " ", "(", "c", "a", "n", "o", "n", "i", "c", "a", "l", ")">>
a_iframe_url == <<"i", "f", "r", "a", "m", "e", " ", "u", "r", "l">>
a_view_url == <<"v", "i", "e", "w", " ", "u", "r", "l">>
a_logo_url == <<"l", "o", "g", "o", " ", "u", "r", "l">>
a_area__town__city == <<"a", "r", "e", "a", "_", "_", "t", "o", "w", "n", "_", "_", "c", "i", "t", "y">>
a_search_tags == <<"s", "e", "a", "r", "c", "h", "_", "t", "a", "g", "s">>
a_region_country == <<"r", "e", "g", "i", "o", "n", "/", "c", "o", "u", "n", "t", "r", "y">>
f_area_slash == <<"a", "r", "e", "a", "/", "t", "o", "w", "n", "/", "c", "i", "t", "y">>
f_Area_Slash == <<"A", "r", "e", "a", "/", "T", "o", "w", "n", "/", "C", "i", "t", "y">>
h_Brand_Name == <<"B", "r", "a", "n", "d", " ", "N", "a", "m", "e">>
h_Official_Website == <<"O", "f", "f", "i", "c", "i", "a", "l", " ", "W", "e", "b", "s", "i", "t", "e">>
h_Website_URL == <<" ", "W", "e", "b", "s", "i", "t", "e", " ", " ", "U", "R", "L">>
k_official_website == <<"o", "f", "f", "i", "c", "i", "a", "l", "_", "w", "e", "b", "s", "i", "t", "e">>
k_constructor == <<"c", "o", "n", "s", "t", "r", "u", "c", "t", "o", "r">>
fnText == <<"f", "u", "n", "c", "t", "i", "o", "n", " ", "O", "b", "j", "e", "c", "t", "(", ")", " ", "{", " ", "[", "n", "a", "t", "i", "v", "e", " ", "c", "o", "d", "e", "]", " ", "}">>
v_Acme == <<"A", "c", "m", "e">>
v_Bistro == <<"B", "i", "s", "t", "r", "o">>
v_Paris == <<"P", "a", "r", "i", "s">>
v_paris == <<"p", "a", "r", "i", "s">>
v_PARIS_sp == <<" ", "P", "A", "R", "I", "S", " ">>
v_Lyon == <<"L", "y", "o", "n">>
v_na == <<" ", "n", "/", "a">>
v_url == <<"h", "t", "t", "p", ":", "/", "/", "a">>
v_all == <<"a", "l", "l">>
v_par == <<"p", "a", "r">>
v_blank == <<" ", " ">>

(***************************************************************************)
(* JavaScript values other than strings.  Each is a one-element sequence   *)
(* whose element is not a single character, so it equals no string.        *)
(***************************************************************************)
Undefined == <<"<undefined>">>
\* Object.prototype.constructor, found by a property read of a missing own key
ObjectCtor == <<"<function Object>">>

EmptyStr == <<>>

\* The characters String.prototype.trim and /\s/ treat as white space.
WS == {" ", "\t"}

UpperChars == <<"A", "B", "C", "D", "E", "F", "G", "H", "I", "J", "K", "L", "M",
                "N", "O", "P", "Q", "R", "S", "T", "U", "V", "W", "X", "Y", "Z">>
LowerChars == <<"a", "b", "c", "d", "e", "f", "g", "h", "i", "j", "k", "l", "m",
                "n", "o", "p", "q", "r", "s", "t", "u", "v", "w", "x", "y", "z">>

\* the case mappings of the letters, as lookup tables
LowerOf == [c \in {UpperChars[i] : i \in 1..Len(UpperChars)} |->
              LowerChars[CHOOSE i \in 1..Len(UpperChars) : UpperChars[i] = c]]
UpperOf == [c \in {LowerChars[i] : i \in 1..Len(LowerChars)} |->
              UpperChars[CHOOSE i \in 1..Len(LowerChars) : LowerChars[i] = c]]

toLowerChar(c) == IF c \in DOMAIN LowerOf THEN LowerOf[c] ELSE c

toUpperChar(c) == IF c \in DOMAIN UpperOf THEN UpperOf[c] ELSE c

toLowerCase(s) == [i \in 1..Len(s) |-> toLowerChar(s[i])]
toUpperCase(s) == [i \in 1..Len(s) |-> toUpperChar(s[i])]

RECURSIVE trimStart(_)
trimStart(s) ==
  IF s = <<>> THEN <<>>
  ELSE IF Head(s) \in WS THEN trimStart(Tail(s)) ELSE s

RECURSIVE trimEnd(_)
trimEnd(s) ==
  IF s = <<>> THEN <<>>
  ELSE IF s[Len(s)] \in WS THEN trimEnd(SubSeq(s, 1, Len(s) - 1)) ELSE s

trim(s) == trimEnd(trimStart(s))

\* v.toString() for the values of the model
toStr(v) == IF v = ObjectCtor THEN fnText ELSE v

\* v ?? d
Nullish(v, d) == IF v = Undefined THEN d ELSE v

\* JavaScript truthiness of a string, undefined or a function
Truthy(v) == v # Undefined /\ v # EmptyStr

\* a || b
Or(a, b) == IF Truthy(a) THEN a ELSE b

\* obj[k] for a plain object: own property, else Object.prototype's, else undefined
Get(obj, k) ==
  IF k \in DOMAIN obj THEN obj[k]
  ELSE IF k = k_constructor THEN ObjectCtor
  ELSE Undefined

bad == {t_ERROR, t_NA_hash, t_NA, t_NULL, t_UNDEFINED}

clean(v) ==
  LET s == trim(toStr(Nullish(v, EmptyStr)))
  IN  IF s = EmptyStr THEN EmptyStr
      ELSE IF toUpperCase(s) \in bad THEN EmptyStr ELSE s

\* s.replace(/\s+/g, "_")
RECURSIVE collapseWs(_)
collapseWs(s) ==
  IF s = <<>> THEN <<>>
  ELSE IF Head(s) \in WS THEN <<"_">> \o collapseWs(trimStart(s))
  ELSE <<Head(s)>> \o collapseWs(Tail(s))

normaliseKey(k) ==
  IF k = Undefined THEN EmptyStr
  ELSE collapseWs(toLowerCase(trim(toStr(k))))

KEY_ALIAS ==
  (a_brand_name :> k_brand_name) @@
  (a_official_website :> k_website_url) @@
  (a_website_url :> k_website_url) @@
  (a_maps_url :> k_maps_url) @@
  (a_widget_url_canonical :> k_booking_widget_url) @@
  (a_iframe_url :> k_booking_widget_url) @@
  (a_view_url :> k_booking_widget_url) @@
  (a_logo_url :> k_logo_url_full) @@
  (a_area__town__city :> k_area_town_city) @@
  (a_search_tags :> k_tags) @@
  (a_region_country :> k_region)

getValFromRow(row, key) ==
  LET nk     == normaliseKey(key)
      direct == Get(row, nk)
      alias  == Get(KEY_ALIAS, nk)
  IN  IF Truthy(direct) THEN clean(direct)
      ELSE IF Truthy(alias)
           THEN clean(Or(Get(row, normaliseKey(alias)), EmptyStr))
           ELSE EmptyStr

getCityFromRow(row) ==
  clean(Or(getValFromRow(row, k_area_town_city),
        Or(getValFromRow(row, f_area_slash),
        Or(getValFromRow(row, f_Area_Slash),
        Or(getValFromRow(row, a_area__town__city), EmptyStr)))))

(***************************************************************************)
(* Facet values: distinct non-empty cities, sorted with localeCompare.     *)
(* The collation modelled is the one localeCompare gives alphabetic        *)
(* strings: letters by alphabet position, lower case before upper case on  *)
(* a tie, other characters before letters, a prefix before its extension.  *)
(***************************************************************************)
RankOf == [c \in {LowerChars[i] : i \in 1..Len(LowerChars)} |->
             CHOOSE i \in 1..Len(LowerChars) : LowerChars[i] = c]

CharRank(c) == IF toLowerChar(c) \in DOMAIN RankOf THEN RankOf[toLowerChar(c)] ELSE 0

RECURSIVE RankLess(_, _)
RankLess(a, b) ==
  IF b = <<>> THEN FALSE
  ELSE IF a = <<>> THEN TRUE
  ELSE IF CharRank(Head(a)) # CharRank(Head(b)) THEN CharRank(Head(a)) < CharRank(Head(b))
  ELSE RankLess(Tail(a), Tail(b))

RECURSIVE CaseLess(_, _)
CaseLess(a, b) ==
  IF a = <<>> \/ b = <<>> THEN FALSE
  ELSE IF Head(a) # Head(b) THEN Head(a) = toLowerChar(Head(a))
  ELSE CaseLess(Tail(a), Tail(b))

\* a.localeCompare(b) < 0
localeLess(a, b) ==
  \/ RankLess(a, b)
  \/ ~RankLess(b, a) /\ CaseLess(a, b)

\* new Set(array) then Array.from: first occurrences, in order
RECURSIVE Dedupe(_)
Dedupe(s) ==
  IF s = <<>> THEN <<>>
  ELSE LET rest == Dedupe(SubSeq(s, 1, Len(s) - 1))
           x    == s[Len(s)]
       IN  IF \E i \in 1..Len(rest) : rest[i] = x THEN rest ELSE Append(rest, x)

areasOf(data) ==
  LET cities == [i \in 1..Len(data) |-> getCityFromRow(data[i])]
      kept   == SelectSeq(cities, Truthy)
      trimd  == [i \in 1..Len(kept) |-> trim(kept[i])]
  IN  <<v_all>> \o SortSeq(Dedupe(trimd), localeLess)

(***************************************************************************)
(* Catalog construction: Papa.parse with header:true, skipEmptyLines:true, *)
(* then one object per row keyed by normalised header.                     *)
(* A payload is the delimited text already split: its header fields and    *)
(* the fields of each following line (no line longer than the header).     *)
(***************************************************************************)
Min(a, b) == IF a < b THEN a ELSE b

\* one raw row: the ordered (header, field) entries of a line
rawRow(header, line) == [j \in 1..Min(Len(header), Len(line)) |-> <<header[j], line[j]>>]

\* skipEmptyLines: a line that is a single empty field yields no row
parse(payload) ==
  LET keep(line) == line # <<EmptyStr>>
      lines == SelectSeq(payload.lines, keep)
  IN  [n \in 1..Len(lines) |-> rawRow(payload.header, lines[n])]

\* Object.entries(r).forEach(([k, v]) => obj[normaliseKey(k)] = (v ?? "").toString().trim())
RECURSIVE buildRow(_)
buildRow(entries) ==
  IF entries = <<>> THEN <<>>
  ELSE LET e    == entries[Len(entries)]
           obj  == buildRow(SubSeq(entries, 1, Len(entries) - 1))
           k    == normaliseKey(e[1])
           v    == trim(toStr(Nullish(e[2], EmptyStr)))
       IN  [x \in (DOMAIN obj) \cup {k} |-> IF x = k THEN v ELSE obj[x]]

buildCatalog(payload) ==
  LET raw == parse(payload)
  IN  [n \in 1..Len(raw) |-> buildRow(raw[n])]

(***************************************************************************)
(* Inputs: the bodies an endpoint may answer with, the endpoints, and the  *)
(* ways an attempt may fail.                                               *)
(***************************************************************************)
\* canonical headers (one with stray spaces and capitals); a sentinel cell, an
\* untrimmed cell, an empty line, a short line
PayloadCanon ==
  [header |-> <<k_brand_name, k_area_town_city, h_Website_URL>>,
   lines  |-> << <<v_Acme, v_Paris, v_url>>,
                 <<EmptyStr>>,
                 <<v_Bistro, v_PARIS_sp, v_na>>,
                 <<v_Lyon, v_Lyon>> >>]

\* headers of an earlier sheet revision, with a legacy and a canonical column
\* for the city, one of them empty in each row
PayloadLegacy ==
  [header |-> <<h_Brand_Name, a_area__town__city, h_Official_Website, k_area_town_city>>,
   lines  |-> << <<v_Bistro, v_paris, v_url, EmptyStr>>,
                 <<v_Acme, EmptyStr, t_NULL, v_Lyon>> >>]

Payloads == <<PayloadCanon, PayloadLegacy>>

SHEET_CSV_URL == <<"https://", "docs.google.com/spreadsheets/d/1f6hQ/export?format=csv&gid=1694382803">>
OtherUrl == <<"http://", "example.org/portal.csv">>
UrlInputs == {SHEET_CSV_URL, OtherUrl}

\* encodeURIComponent, on the tokens the endpoints are made of
encodeURIComponent(u) ==
  LET enc(t) == CASE t = "https://" -> "https%3A%2F%2F"
                  [] t = "http://" -> "http%3A%2F%2F"
                  [] t = "docs.google.com/spreadsheets/d/1f6hQ/export?format=csv&gid=1694382803"
                       -> "docs.google.com%2Fspreadsheets%2Fd%2F1f6hQ%2Fexport%3Fformat%3Dcsv%26gid%3D1694382803"
                  [] t = "example.org/portal.csv" -> "example.org%2Fportal.csv"
                  [] OTHER -> t
  IN  [j \in 1..Len(u) |-> enc(u[j])]

\* u.replace(/^https?:\/\//, "")
stripScheme(u) == IF u # <<>> /\ Head(u) \in {"http://", "https://"} THEN Tail(u) ELSE u

CORS_PROXIES == <<"jina", "allorigins">>

applyProxy(name, u) ==
  IF name = "jina" THEN <<"https://r.jina.ai/http/">> \o stripScheme(u)
  ELSE <<"https://api.allorigins.win/raw?url=">> \o encodeURIComponent(u)

tryUrls(url) == <<url>> \o [j \in 1..Len(CORS_PROXIES) |-> applyProxy(CORS_PROXIES[j], url)]

\* messages of the errors fetch() or res.text() may reject with
RejectMessages == { <<"Failed to fetch">> }
\* statuses for which res.ok is false
BadStatuses == {"503"}

\* number of effect runs (loads) considered
MaxLoads == 2

(***************************************************************************)
(* State.                                                                  *)
(*   loads   one entry per run of the effect: the closure of load()        *)
(*           (cancelled, the loop position, lastErr) and the requests it   *)
(*           has issued with what the network answered                     *)
(*   rows, loading, error   the hook's state                               *)
(*   q, city                the App's state                                *)
(*   fuse, areas, list      the App's memoised values                      *)
(*   shown                  the state the last render read                 *)
(***************************************************************************)
VARIABLES loads, rows, loading, error, q, city, fuse, areas, list, shown

hookVars == <<loads, rows, loading, error>>
appVars == <<q, city, fuse, areas, list, shown>>
vars == <<loads, rows, loading, error, q, city, fuse, areas, list, shown>>

Null == <<"<null>">>
NoFailure == [kind |-> "none", info |-> ""]

\* a request as issued by fetch(u): not yet answered
request(u) == [url |-> u, st |-> "pending", fail |-> NoFailure, body |-> 0]

\* the closure of one call of load(), at its first await
newLoad(u) ==
  [url |-> u, cancelled |-> FALSE, pc |-> "fetch", i |-> 1, lastErr |-> Null,
   reqs |-> <<request(tryUrls(u)[1])>>]

\* the array identity of the initial useState([]) value is 0; the array built
\* by load number g has identity g
snapshot == [rowsId |-> rows.id, q |-> q, city |-> city, loading |-> loading, error |-> error]

Init ==
  /\ loads = <<newLoad(SHEET_CSV_URL)>>
  /\ rows = [id |-> 0, data |-> <<>>]
  /\ loading = TRUE
  /\ error = EmptyStr
  /\ q = EmptyStr
  /\ city = v_all
  /\ fuse = [deps |-> <<0>>, src |-> 0, docs |-> <<>>]
  /\ areas = [deps |-> <<0>>, val |-> <<v_all>>]
  /\ list = [deps |-> <<0, EmptyStr, v_all, 0>>, search |-> <<>>, val |-> <<>>]
  /\ shown = [rowsId |-> 0, q |-> EmptyStr, city |-> v_all, loading |-> TRUE, error |-> EmptyStr]

(***************************************************************************)
(* useSheetData: the effect and the steps of load().                       *)
(***************************************************************************)
\* variants of the cancellation test: the flag ignored, the flag inverted
cancelIgnored(l) == TRUE
cancelInverted(l) == l.cancelled

\* if (!cancelled)
notCancelled(l) == ~l.cancelled

\* variant of the catch: only the first failure is kept
caughtFirst(prev, e) == IF prev = Null THEN e ELSE prev

\* catch (e) { lastErr = e; }
caught(prev, e) == e

\* `Could not load sheet. ${lastErr ? lastErr.message : ""}`
errorText(lastErr) ==
  <<"Could not load sheet. ">> \o (IF lastErr # Null THEN lastErr ELSE EmptyStr)

\* new Error(`HTTP ${res.status}`).message
httpMessage(status) == <<"HTTP ", status>>

\* the for loop has a next url to try
hasNext(l) == l.i < Len(tryUrls(l.url))

\* the closure after a failed attempt: the catch, then the next iteration's
\* fetch, or the end of the loop
afterFailure(l, msg, f) ==
  LET l1 == [l EXCEPT !.lastErr = caught(l.lastErr, msg),
                      !.reqs[l.i].st = "failed",
                      !.reqs[l.i].fail = f]
  IN  IF hasNext(l)
      THEN [l1 EXCEPT !.i = l.i + 1, !.pc = "fetch",
                      !.reqs = Append(l1.reqs, request(tryUrls(l.url)[l.i + 1]))]
      ELSE [l1 EXCEPT !.pc = "done"]

\* variant of the success path without the return: the loop goes on
afterSuccessNoReturn(l, b) ==
  LET l1 == [l EXCEPT !.reqs[l.i].st = "ok", !.reqs[l.i].body = b]
  IN  IF l.i < Len(tryUrls(l.url))
      THEN [l1 EXCEPT !.i = l.i + 1, !.pc = "fetch",
                      !.reqs = Append(l1.reqs, request(tryUrls(l.url)[l.i + 1]))]
      ELSE [l1 EXCEPT !.pc = "done"]

\* the closure after a successful attempt: return
afterSuccess(l, b) ==
  [l EXCEPT !.pc = "done", !.reqs[l.i].st = "ok", !.reqs[l.i].body = b]

\* the hook's state after load g failed an attempt and became l2
Fail(g, l2) ==
  /\ loads' = [loads EXCEPT ![g] = l2]
  /\ IF l2.pc = "done" /\ notCancelled(l2)
     THEN /\ error' = errorText(l2.lastErr)
          /\ loading' = FALSE
     ELSE UNCHANGED <<error, loading>>
  /\ UNCHANGED rows

\* the effect runs for a new url: the previous run's cleanup, then load()
ChangeUrl(u) ==
  /\ Len(loads) < MaxLoads
  /\ u # loads[Len(loads)].url
  /\ loads' = Append([loads EXCEPT ![Len(loads)].cancelled = TRUE], newLoad(u))
  /\ loading' = TRUE
  /\ error' = EmptyStr
  /\ UNCHANGED <<rows, appVars>>

\* await fetch(u) rejects
FetchReject(g, m) ==
  /\ loads[g].pc = "fetch"
  /\ Fail(g, afterFailure(loads[g], m, [kind |-> "reject", info |-> m[1]]))
  /\ UNCHANGED appVars

\* await fetch(u) resolves with res.ok false
FetchNotOk(g, status) ==
  /\ loads[g].pc = "fetch"
  /\ Fail(g, afterFailure(loads[g], httpMessage(status), [kind |-> "status", info |-> status]))
  /\ UNCHANGED appVars

\* await fetch(u) resolves with res.ok true: on to await res.text()
FetchOk(g) ==
  /\ loads[g].pc = "fetch"
  /\ loads' = [loads EXCEPT ![g].pc = "text", ![g].reqs[loads[g].i].st = "reading"]
  /\ UNCHANGED <<rows, loading, error, appVars>>

\* await res.text() rejects
TextReject(g, m) ==
  /\ loads[g].pc = "text"
  /\ Fail(g, afterFailure(loads[g], m, [kind |-> "reject", info |-> m[1]]))
  /\ UNCHANGED appVars

\* await res.text() resolves with body number b: parse, build, commit, return
TextOk(g, b) ==
  /\ loads[g].pc = "text"
  /\ loads' = [loads EXCEPT ![g] = afterSuccess(loads[g], b)]
  /\ IF notCancelled(loads[g])
     THEN /\ rows' = [id |-> g, data |-> buildCatalog(Payloads[b])]
          /\ loading' = FALSE
     ELSE UNCHANGED <<rows, loading>>
  /\ UNCHANGED <<error, appVars>>

(***************************************************************************)
(* App: the inputs' handlers and a render, which re-evaluates the three    *)
(* useMemo values whose dependencies changed.                              *)
(***************************************************************************)
\* the texts typed into the search box
Queries == {EmptyStr, v_blank, v_par}

Range(s) == {s[j] : j \in DOMAIN s}

\* what fuse.search(q).map(x => x.item) may return: Fuse ranks some of the
\* indexed documents, each at most once; which ones and in what order is the
\* library's scoring, left open here
Rankings(docs) ==
  LET n == Len(docs)
      idx == UNION {[1..k -> 1..n] : k \in 0..n}
      inj == {f \in idx : \A a, b \in DOMAIN f : a # b => f[a] # f[b]}
  IN  {[j \in DOMAIN f |-> docs[f[j]]] : f \in inj}

\* variant of the index memo with an empty dependency list
fuseDepsNone(r) == <<>>

\* the dependency lists of the three useMemo calls
fuseDeps(r) == <<r.id>>
areasDeps(r) == <<r.id>>
listDeps(r, qq, c, f) == <<r.id, qq, c, f.src>>

\* variant of the facet predicate that compares case-sensitively
cityMatchesExact(r, c) == Or(getCityFromRow(r), EmptyStr) = c

\* the predicate of l.filter in list
cityMatches(r, c) == toLowerCase(Or(getCityFromRow(r), EmptyStr)) = toLowerCase(c)

\* the body of the list memo, given what fuse.search returned
listOf(r, qq, c, hits) ==
  LET l1 == IF trim(qq) # EmptyStr THEN hits ELSE r.data
      keep(x) == cityMatches(x, c)
      l2 == IF c # v_all THEN SelectSeq(l1, keep) ELSE l1
  IN  [search |-> l1, val |-> l2]

\* onChange of the search box
SetQ(v) ==
  /\ v # q
  /\ q' = v
  /\ UNCHANGED <<hookVars, city, fuse, areas, list, shown>>

\* onChange of the select, whose options are the rendered areas
SetCity(c) ==
  /\ c \in Range(areas.val)
  /\ c # city
  /\ city' = c
  /\ UNCHANGED <<hookVars, q, fuse, areas, list, shown>>

\* a render of App after some state it reads has changed
Render ==
  /\ shown # snapshot
  /\ LET f == IF fuse.deps = fuseDeps(rows) THEN fuse
              ELSE [deps |-> fuseDeps(rows), src |-> rows.id, docs |-> rows.data]
         a == IF areas.deps = areasDeps(rows) THEN areas
              ELSE [deps |-> areasDeps(rows), val |-> areasOf(rows.data)]
         d == listDeps(rows, q, city, f)
     IN  /\ fuse' = f
         /\ areas' = a
         /\ IF list.deps = d THEN list' = list
            ELSE \E hits \in (IF trim(q) # EmptyStr THEN Rankings(f.docs) ELSE {<<>>}) :
                   list' = [deps |-> d] @@ listOf(rows, q, city, hits)
  /\ shown' = snapshot
  /\ UNCHANGED <<hookVars, q, city>>

(***************************************************************************)
(* Specifications.                                                         *)
(***************************************************************************)
Settle(g) ==
  \/ \E m \in RejectMessages : FetchReject(g, m)
  \/ \E st \in BadStatuses : FetchNotOk(g, st)
  \/ FetchOk(g)
  \/ \E m \in RejectMessages : TextReject(g, m)
  \/ \E b \in 1..Len(Payloads) : TextOk(g, b)

\* The hook alone: every way the loads can run.  The App's inputs and renders
\* neither read nor write the loads, and are left out.
Next ==
  \/ \E u \in UrlInputs : ChangeUrl(u)
  \/ \E g \in 1..Len(loads) : Settle(g)

Spec == Init /\ [][Next]_vars

\* Every attempt's promise eventually settles; nothing forces another effect run.
LiveSpec == Spec /\ \A g \in 1..MaxLoads : WF_vars(g <= Len(loads) /\ Settle(g))

\* The App over the catalogs the hook commits: loads whose first attempt
\* succeeds, the two inputs and the renders.
AppNext ==
  \/ \E u \in UrlInputs : ChangeUrl(u)
  \/ \E g \in 1..Len(loads) : FetchOk(g)
  \/ \E g \in 1..Len(loads) : \E b \in 1..Len(Payloads) : TextOk(g, b)
  \/ \E v \in Queries : SetQ(v)
  \/ \E c \in Range(areas.val) : SetCity(c)
  \/ Render

AppSpec == Init /\ [][AppNext]_vars

(***************************************************************************)
(* Properties.                                                             *)
(***************************************************************************)
latest == loads[Len(loads)]
lastReq(l) == l.reqs[Len(l.reqs)]
allFailed(l) == \A j \in 1..Len(l.reqs) : l.reqs[j].st = "failed"

\* C1: a load that has been superseded (a later load exists) never writes
\* rows, error or loading in any of its later steps, whatever its attempts
\* answer; and while the latest load is in flight the loading flag stays set.
C1_SupersededNeverWrites ==
  /\ [][\A g \in 1..Len(loads) :
          (g < Len(loads) /\ loads'[g] # loads[g]) => UNCHANGED <<rows, loading, error>>]_vars
  /\ [](latest.pc # "done" => loading /\ rows.id # Len(loads))

\* C1 witness: load 1 was superseded, then its attempt succeeded and it
\* returned, while load 2 is still in flight and nothing was committed.
C1_Witness ==
  /\ Len(loads) = 2
  /\ loads[1].cancelled /\ loads[1].pc = "done" /\ lastReq(loads[1]).st = "ok"
  /\ loads[2].pc # "done"
  /\ rows.id = 0 /\ loading /\ error = EmptyStr

\* C2: within a load the requests go to the primary endpoint, proxy 1, proxy 2
\* in that order, each issued only when all before it have failed, none after
\* a success; a committed catalog is the one built from the body of the
\* load's successful (last) request.
C2_SequentialAttempts ==
  \A g \in 1..Len(loads) :
    LET l == loads[g]
        n == Len(l.reqs)
    IN  /\ n <= Len(tryUrls(l.url))
        /\ \A j \in 1..n : l.reqs[j].url = tryUrls(l.url)[j]
        /\ \A j \in 1..(n - 1) : l.reqs[j].st = "failed"
        /\ rows.id = g =>
             /\ lastReq(l).st = "ok"
             /\ rows.data = buildCatalog(Payloads[lastReq(l).body])

\* C2 witness: the primary failed, proxy 1 answered the legacy sheet, proxy 2
\* was never contacted and the catalog is the one of proxy 1's body.
C2_Witness ==
  /\ Len(loads[1].reqs) = 2
  /\ loads[1].reqs[1].st = "failed"
  /\ loads[1].reqs[2].st = "ok" /\ loads[1].reqs[2].body = 2
  /\ loads[1].reqs[2].url = <<"https://r.jina.ai/http/">> \o Tail(SHEET_CSV_URL)
  /\ loads[1].pc = "done"
  /\ rows.id = 1 /\ rows.data = buildCatalog(PayloadLegacy)

\* the message of a failure as the network produced it
failureMessage(f) == IF f.kind = "status" THEN <<"HTTP ", f.info>> ELSE <<f.info>>

\* C3: when every attempt of the latest load has failed, the load has tried
\* all endpoints, loading is off and the error text carries the message of
\* the last attempt's failure; a non-success status fails with "HTTP <status>".
C3_LastFailureSurfaced ==
  (latest.pc = "done" /\ allFailed(latest)) =>
     /\ Len(latest.reqs) = 1 + Len(CORS_PROXIES)
     /\ ~loading
     /\ error = <<"Could not load sheet. ">> \o failureMessage(lastReq(latest).fail)

\* C3 witness: all three attempts failed, the first by a rejected fetch and
\* the last by a non-success status, and the error names the status.
C3_Witness ==
  /\ latest.pc = "done" /\ allFailed(latest)
  /\ latest.reqs[1].fail.kind = "reject"
  /\ lastReq(latest).fail.kind = "status"
  /\ error = <<"Could not load sheet. ", "HTTP ", "503">>

\* C4: whenever the latest load has failed and the error is set, the catalog
\* is empty.
C4_ErrorMeansEmptyCatalog ==
  (latest.pc = "done" /\ error # EmptyStr) => rows.data = <<>>

\* C5: every value stored in a record of the catalog is trimmed and is no
\* sentinel token in any casing.
C5_NoSentinelStored ==
  \A n \in 1..Len(rows.data) : \A k \in DOMAIN rows.data[n] :
    LET v == rows.data[n][k]
    IN  v = trim(v) /\ toUpperCase(v) \notin bad

\* C6: a record that lacks canonical key k but has the normalised legacy key
\* the alias table maps to k answers a lookup of k with the legacy key's value.
C6_CanonicalResolvesLegacy ==
  \A n \in 1..Len(rows.data) : \A legacy \in DOMAIN KEY_ALIAS :
    LET rec == rows.data[n]
        k   == KEY_ALIAS[legacy]
        lk  == normaliseKey(legacy)
    IN  (k \notin DOMAIN rec /\ lk \in DOMAIN rec) => getValFromRow(rec, k) = rec[lk]

\* the field names looked up
FieldNames ==
  {k_brand_name, k_website_url, h_Official_Website, k_area_town_city,
   a_area__town__city, a_search_tags, k_constructor}

\* C7: a lookup returns the record's value under the normalised name whenever
\* that key is in the record, the empty string included, without turning to
\* the alias table; otherwise the value under the alias target if the table
\* has one that is in the record; otherwise the empty string.
C7_LookupOrder ==
  \A n \in 1..Len(rows.data) : \A f \in FieldNames :
    LET rec == rows.data[n]
        nk  == normaliseKey(f)
    IN  IF nk \in DOMAIN rec THEN getValFromRow(rec, f) = rec[nk]
        ELSE IF nk \in DOMAIN KEY_ALIAS /\ normaliseKey(KEY_ALIAS[nk]) \in DOMAIN rec
             THEN getValFromRow(rec, f) = rec[normaliseKey(KEY_ALIAS[nk])]
             ELSE getValFromRow(rec, f) = EmptyStr

\* the strictly increasing maps of 1..m into 1..n
Increasing(m, n) == {f \in [1..m -> 1..n] : \A a, b \in 1..m : a < b => f[a] < f[b]}

\* the query, the facet value and the memo values of the last evaluation
evalQ == list.deps[2]
evalCity == list.deps[3]

\* C8: in the last evaluation of the result list, the search step's output is
\* the whole catalog in row order when the query is blank, and the result is
\* that output with its order kept, holding every record when the facet is
\* "all" and otherwise exactly the records whose city equals the facet value
\* up to letter case.
C8_SearchThenFacet ==
  /\ (trim(evalQ) = EmptyStr /\ rows.id = shown.rowsId) => list.search = rows.data
  /\ evalCity = v_all => list.val = list.search
  /\ evalCity # v_all =>
       \E f \in Increasing(Len(list.val), Len(list.search)) :
         /\ \A j \in 1..Len(list.val) : list.val[j] = list.search[f[j]]
         /\ \A i \in 1..Len(list.search) :
              (\E j \in 1..Len(list.val) : f[j] = i)
                <=> toLowerCase(getCityFromRow(list.search[i])) = toLowerCase(evalCity)

\* C8 witness: a blank query and the facet "paris" over the three-row catalog
\* keep the rows whose cities are "Paris" and "PARIS", in row order, and drop
\* the third.
C8_Witness ==
  /\ rows.id = shown.rowsId
  /\ rows.data = buildCatalog(PayloadCanon)
  /\ trim(evalQ) = EmptyStr /\ evalCity = v_paris
  /\ list.search = rows.data
  /\ list.val = <<rows.data[1], rows.data[2]>>

\* C9: the index, the facet list and the result list of the last evaluation
\* were all built from the catalog that evaluation read, the index over that
\* whole catalog; as long as that catalog is still the current one they are
\* the index and facets of the current catalog.
C9_IndexOfCurrentCatalog ==
  /\ fuse.src = shown.rowsId
  /\ areas.deps = <<shown.rowsId>>
  /\ list.deps = <<shown.rowsId, shown.q, shown.city, fuse.src>>
  /\ rows.id = shown.rowsId =>
       /\ fuse.docs = rows.data
       /\ areas.val = areasOf(rows.data)
       /\ (trim(evalQ) # EmptyStr => Range(list.search) \subseteq Range(rows.data))

\* C9 witness: the catalog was replaced twice and a non-blank query was then
\* answered from an index over the second catalog.
C9_Witness ==
  /\ rows.id = 2 /\ shown.rowsId = 2
  /\ rows.data # <<>>
  /\ fuse.src = 2 /\ fuse.docs = rows.data
  /\ trim(evalQ) # EmptyStr
  /\ list.val # <<>>

\* the latest load has returned with exactly one outcome
settled(g) ==
  /\ g <= Len(loads)
  /\ loads[g].pc = "done"
  /\ ~loading
  /\ \/ rows.id = g /\ error = EmptyStr
     \/ rows.id # g /\ error # EmptyStr

\* C10: a load issues at most 1 + (number of proxies) requests; while the
\* latest load has not returned the loading flag is set; when it has, the flag
\* is off and either its catalog is committed with no error or an error text
\* is set; and if every attempt settles, a load that is not superseded does
\* return.
C10_LoadTerminates ==
  /\ [](\A g \in 1..Len(loads) : Len(loads[g].reqs) <= 1 + Len(CORS_PROXIES))
  /\ [](IF latest.pc = "done" THEN settled(Len(loads)) ELSE loading)
  /\ \A g \in 1..MaxLoads : (Len(loads) = g) ~> (Len(loads) > g \/ settled(g))

\* C10 witness: the latest load returned after three failed attempts with the
\* error set and the loading flag off.
C10_Witness ==
  /\ Len(loads) = 2
  /\ latest.pc = "done" /\ Len(latest.reqs) = 3 /\ allFailed(latest)
  /\ ~loading /\ error # EmptyStr
=============================================================================
